---- MODULE Spec2Model ----
(***************************************************************************)
(* Model of codeflow's graph builders.                                     *)
(*                                                                         *)
(* ControlFlowGraph (python/codeflow/cfg.py) walks a syntax tree with an   *)
(* ast.NodeVisitor and threads the "current predecessor frontier" through  *)
(* a stack of Python set objects.  Python sets are mutable objects that     *)
(* are shared by reference (a node's preds IS the frontier set that was on *)
(* the stack), so the model keeps an explicit heap of set objects and      *)
(* stores references to them in nodes, in the frontier stack and in the    *)
(* loop contexts.                                                          *)
(*                                                                         *)
(* The syntax tree is supplied one statement at a time: every behaviour of *)
(* the specification is the traversal of one tree, the tree being chosen   *)
(* nondeterministically as the traversal proceeds.  A compound statement   *)
(* handler (visit_If, visit_While, ...) is cut at its recursive visit()    *)
(* calls; `frames' is the Python call stack of the handlers that are       *)
(* currently suspended in such a call, holding their local variables.      *)
(***************************************************************************)
EXTENDS Integers, Sequences, FiniteSets, TLC

\* ------------------------------------------------------------------------
\* Bounds of the explored inputs
\* ------------------------------------------------------------------------
\* simple statements (one node each) in a program
MaxSimple == 3
\* compound statements (if / loop / def / class) in a program
MaxCompound == 2
\* deepest nesting of compound statements
MaxDepth == 2
\* call expressions the traversal visits in a program
MaxCalls == 1

\* ------------------------------------------------------------------------
\* Names that occur in the explored programs
\* ------------------------------------------------------------------------
\* names given to function definitions
FuncNames == {"f"}
\* names given to class definitions
ClassNames == {"C"}
\* a statement without any call expression
NoCall == "-"
\* callee texts of call expressions
Callees == {"f"}
\* keys _functions can get: plain and class-qualified function names
FuncKeys == FuncNames \cup {c \o "." \o f : c \in ClassNames, f \in FuncNames}
\* absent dict entry / absent local
None == -1

VARIABLES
    gtype,           \* cli.py --type: which builder runs ("cfg" or "dfg")
    pc,              \* position in build(): "init", "visit", "done", "error"
    nodes,           \* ControlFlowGraph._nodes: id -> CFGNode
    heap,            \* the Python set objects, by reference (index)
    functions,       \* ControlFlowGraph._functions: name -> Def node id
    stack_class,     \* ControlFlowGraph._stack_class
    stack_function,  \* ControlFlowGraph._stack_function
    stack_loop,      \* ControlFlowGraph._stack_loop: [cn_enter, cn_exits]
    stack_preds,     \* ControlFlowGraph._stack_preds: references into heap
    frames,          \* suspended compound-statement handlers (call stack)
    log,             \* history: facts about the constructs visited so far
    calls,           \* history: the call expressions visited so far
    graphs,          \* the DataFlowGraph objects, by reference (index)
    active           \* the DataFlowGraph builders that are running (call stack)

cfgvars == <<nodes, heap, functions, stack_class, stack_function,
             stack_loop, stack_preds, frames, log, calls>>

dfgvars == <<graphs, active>>

vars == <<gtype, pc, nodes, heap, functions, stack_class, stack_function,
          stack_loop, stack_preds, frames, log, calls, graphs, active>>

\* ------------------------------------------------------------------------
\* Python lists used as stacks, dicts, set objects
\* ------------------------------------------------------------------------
Top(s) == s[Len(s)]

Pop(s) == SubSeq(s, 1, Len(s) - 1)

\* len(self._nodes)
NumNodes(g) == Cardinality(DOMAIN g.nodes)

\* the value of the set object a reference points to
Deref(g, ref) == g.heap[ref]

\* a new set object holding S; its reference is Len(g.heap) + 1
Alloc(g, S) == [g EXCEPT !.heap = Append(@, S)]

\* set.add on the object behind ref, seen through every alias of it
SetAdd(g, ref, S) == [g EXCEPT !.heap[ref] = @ \cup S]

\* the builder object as one value, so that handler steps compose
Self ==
    [nodes |-> nodes, heap |-> heap, functions |-> functions,
     stack_class |-> stack_class, stack_function |-> stack_function,
     stack_loop |-> stack_loop, stack_preds |-> stack_preds]

Commit(g) ==
    /\ nodes' = g.nodes
    /\ heap' = g.heap
    /\ functions' = g.functions
    /\ stack_class' = g.stack_class
    /\ stack_function' = g.stack_function
    /\ stack_loop' = g.stack_loop
    /\ stack_preds' = g.stack_preds

\* ------------------------------------------------------------------------
\* CFGNode and ControlFlowGraph.add_node
\* ------------------------------------------------------------------------
\* CFGNode.__init__: preds is the set object passed in, callers a new set
CFGNode(id, label, type, preds) ==
    [id |-> id, label |-> label, type |-> type, preds |-> preds, callers |-> {}]

\* CFGNode.add_predecessors: mutates the node's preds object in place
add_predecessors(g, id, S) == SetAdd(g, g.nodes[id].preds, S)

\* CFGNode.add_callers
add_callers(g, id, S) == [g EXCEPT !.nodes[id].callers = @ \cup S]

\* add_node: the new node takes the popped frontier object as its preds and
\* a new singleton set object becomes the frontier
add_node(g, label, type) ==
    LET id == NumNodes(g)
        cn == CFGNode(id, label, type, Top(g.stack_preds))
        g1 == [g EXCEPT !.nodes = [k \in DOMAIN g.nodes \cup {id} |->
                                      IF k = id THEN cn ELSE g.nodes[k]],
                        !.stack_preds = Pop(@)]
        g2 == Alloc(g1, {cn.id})
    IN  [g2 EXCEPT !.stack_preds = Append(@, Len(g2.heap))]

\* variant: the callers are not recorded
visit_Call_skips(g, callee) == g

\* visit_Call: the frontier's nodes become callers of a registered callee
visit_Call(g, callee) ==
    IF callee \in FuncKeys /\ g.functions[callee] # None
    THEN add_callers(g, g.functions[callee], Deref(g, Top(g.stack_preds)))
    ELSE g

\* NodeVisitor.generic_visit of a node whose expression children hold the
\* call expression e (or none): only Call has a visitor among expressions
generic_visit(g, e) == IF e \in Callees THEN visit_Call(g, e) ELSE g

\* ------------------------------------------------------------------------
\* Statement visitors (cfg.py), as functions of the builder object
\* ------------------------------------------------------------------------
\* A label is the statement's source text (astunparse).  The builder only
\* ever asks whether it is empty (is_hidden), so every statement gets the
\* same non-empty text; only the markers ('') and start / stop differ.
Text == "stmt"

\* visit_Assign, visit_AugAssign, visit_Delete, visit_Assert
visit_Assign(g, e) == generic_visit(add_node(g, Text, "none"), e)

visit_Return(g, e) == generic_visit(add_node(g, Text, "none"), e)

\* visit_Raise: the exception expression is not visited
visit_Raise(g) == add_node(g, Text, "none")

\* variant: the statement gets two nodes
visit_Pass_twice(g) == add_node(add_node(g, Text, "none"), Text, "none")

\* visit_Pass, visit_Import, visit_ImportFrom
visit_Pass(g) == add_node(g, Text, "none")

\* variant: every expression statement gets a node
has_effect_always(e) == TRUE

\* ast.walk finds a Yield, YieldFrom or Call under the statement
has_effect(e) == e # NoCall

visit_Expr(g, e) ==
    IF has_effect(e) THEN generic_visit(add_node(g, Text, "none"), e) ELSE g

\* a statement without visit_ method (AnnAssign, Global, ...): NodeVisitor
\* falls back to generic_visit
visit_Other(g, e) == generic_visit(g, e)

\* stack_loop[-1] raises IndexError on an empty list
InLoop(g) == Len(g.stack_loop) > 0

\* self._stack_preds[-1] = set()
ClearFrontier(g) ==
    LET g1 == Alloc(g, {})
    IN  [g1 EXCEPT !.stack_preds[Len(g1.stack_preds)] = Len(g1.heap)]

\* variant: the empty frontier is pushed, not put in place of the old one
visit_Break_pushes(g) ==
    LET cn_exits == Top(g.stack_loop).cn_exits
        g1 == add_node(g, Text, "none")
        g2 == Alloc(SetAdd(g1, cn_exits, {NumNodes(g)}), {})
    IN  [g2 EXCEPT !.stack_preds = Append(@, Len(g2.heap))]

\* variant: the frontier is left as it is after the break node
visit_Break_keeps(g) ==
    LET cn_exits == Top(g.stack_loop).cn_exits
        g1 == add_node(g, Text, "none")
    IN  SetAdd(g1, cn_exits, {NumNodes(g)})

visit_Break(g) ==
    LET cn_exits == Top(g.stack_loop).cn_exits
        g1 == add_node(g, Text, "none")
        g2 == SetAdd(g1, cn_exits, {NumNodes(g)})
    IN  ClearFrontier(g2)

\* variant: the outermost loop context is used instead of the innermost
visit_Continue_outer(g) ==
    LET cn_enter == g.stack_loop[1].cn_enter
        g1 == add_node(g, Text, "none")
        g2 == add_predecessors(g1, cn_enter, {NumNodes(g)})
    IN  ClearFrontier(g2)

\* variant: the continue node is connected to the start of the loop body
visit_Continue_body(g) ==
    LET cn_enter == Top(g.stack_loop).cn_enter
        g1 == add_node(g, Text, "none")
        g2 == add_predecessors(g1, cn_enter + 2, {NumNodes(g)})
    IN  ClearFrontier(g2)

visit_Continue(g) ==
    LET cn_enter == Top(g.stack_loop).cn_enter
        g1 == add_node(g, Text, "none")
        g2 == add_predecessors(g1, cn_enter, {NumNodes(g)})
    IN  ClearFrontier(g2)

\* visit_For / visit_While up to the first statement of the body
LoopEnter(g, e) ==
    LET cn_enter == NumNodes(g)
        g1 == add_node(g, Text, "if")
        g2 == generic_visit(g1, e)
        g3 == add_node(g2, "", "if_false")
        g4 == Alloc(g3, {NumNodes(g2)})
        g5 == [g4 EXCEPT !.stack_loop =
                  Append(@, [cn_enter |-> cn_enter, cn_exits |-> Len(g4.heap)])]
    IN  add_node(g5, "", "if_true")

\* variant: the body's frontier replaces the entry node's predecessors
LoopExit_replace(g, cn_enter, cn_exits) ==
    LET g1 == [g EXCEPT !.heap[g.nodes[cn_enter].preds] =
                           Deref(g, Top(g.stack_preds))]
    IN  [g1 EXCEPT !.stack_preds = Append(Pop(@), cn_exits),
                   !.stack_loop = Pop(@)]

\* variant: the back-edge goes to the marker that starts the body
LoopExit_marker(g, cn_enter, cn_exits) ==
    LET g1 == add_predecessors(g, cn_enter + 2, Deref(g, Top(g.stack_preds)))
    IN  [g1 EXCEPT !.stack_preds = Append(Pop(@), cn_exits),
                   !.stack_loop = Pop(@)]

\* visit_For / visit_While after the last statement of the body
LoopExit(g, cn_enter, cn_exits) ==
    LET g1 == add_predecessors(g, cn_enter, Deref(g, Top(g.stack_preds)))
    IN  [g1 EXCEPT !.stack_preds = Append(Pop(@), cn_exits),
                   !.stack_loop = Pop(@)]

\* visit_If up to the first statement of the body
IfEnter(g, e) ==
    LET g1 == add_node(g, Text, "if")
        g2 == generic_visit(g1, e)
        g3 == [g2 EXCEPT !.stack_preds = Append(@, Top(@))]
    IN  add_node(g3, "", "if_true")

\* variant: the false marker is appended to the end of the body
IfElse_chained(g) == add_node(g, "", "if_false")

\* visit_If between the body and orelse; cn_if is the popped reference
IfElse(g) == add_node([g EXCEPT !.stack_preds = Pop(@)], "", "if_false")

\* variant: only the orelse frontier survives the if statement
IfExit_else(g, cn_if) == g

\* visit_If after orelse: a new set object, the union of both branches
IfExit(g, cn_if) ==
    LET cn_else == Top(g.stack_preds)
        g1 == Alloc(g, Deref(g, cn_if) \cup Deref(g, cn_else))
    IN  [g1 EXCEPT !.stack_preds = Append(Pop(@), Len(g1.heap))]

\* '%s.%s' % (class_name, ast_node.name) inside a class body
QualName(g, name) ==
    IF Len(g.stack_class) > 0 THEN Top(g.stack_class) \o "." \o name ELSE name

\* visit_FunctionDef up to the first statement of the body
FunctionDefEnter(g, name) ==
    LET func_name == QualName(g, name)
        g1 == [g EXCEPT !.stack_function = Append(@, func_name)]
        g2 == Alloc(g1, {})
        g3 == [g2 EXCEPT !.stack_preds = Append(@, Len(g2.heap))]
        g4 == add_node(g3, Text, "def")
    IN  [g4 EXCEPT !.functions[func_name] = NumNodes(g)]

FunctionDefExit(g) ==
    [g EXCEPT !.stack_function = Pop(@), !.stack_preds = Pop(@)]

\* visit_ClassDef up to the first statement of the body
ClassDefEnter(g, name) ==
    LET g1 == [g EXCEPT !.stack_class = Append(@, name)]
        g2 == Alloc(g1, {})
        g3 == [g2 EXCEPT !.stack_preds = Append(@, Len(g2.heap))]
    IN  add_node(g3, Text, "def")

ClassDefExit(g) ==
    [g EXCEPT !.stack_class = Pop(@), !.stack_preds = Pop(@)]

\* build(): state initialisation and the start node
BuildEnter ==
    add_node([nodes |-> <<>>, heap |-> <<{}>>,
              functions |-> [k \in FuncKeys |-> None],
              stack_class |-> <<>>, stack_function |-> <<>>,
              stack_loop |-> <<>>, stack_preds |-> <<1>>],
             "start", "start")

\* variant: the stop node is appended to an emptied frontier
BuildExit_detached(g) == add_node(ClearFrontier(g), "stop", "stop")

\* build(): the stop node
BuildExit(g) == add_node(g, "stop", "stop")

\* ------------------------------------------------------------------------
\* The traversal: one action per statement handler (or handler segment)
\* ------------------------------------------------------------------------
\* what a statement's expressions may hold: a call, a yield, or neither
YieldExpr == "yield"

Exprs == Callees \cup {NoCall}

\* the frontier: the value of the set object on top of _stack_preds
Frontier == Deref(Self, Top(stack_preds))

\* the predecessor set of a node, read through its reference
Preds(id) == heap[nodes[id].preds]

\* the node of a type that was created last
Newest(g, type) ==
    CHOOSE k \in DOMAIN g.nodes :
        /\ g.nodes[k].type = type
        /\ \A j \in DOMAIN g.nodes : g.nodes[j].type = type => j <= k

\* a suspended handler: its kind, its locals, and history fields (nonempty:
\* its current body has a statement, prev: see Visited, node: the node it
\* created first, mark / mark2: its markers, before: the frontier it
\* started from, end1: the frontier at the end of its first body)
Frame(kind, cn_enter, cn_exits, node, mark, mark2, before) ==
    [kind |-> kind, nonempty |-> FALSE, prev |-> "",
     cn_enter |-> cn_enter, cn_exits |-> cn_exits, cn_if |-> None,
     node |-> node, mark |-> mark, mark2 |-> mark2, before |-> before,
     end1 |-> {}]

\* a history record
Fact(kind, tag, node, mark, mark2, before, end1, end2, after, hi) ==
    [kind |-> kind, tag |-> tag, node |-> node, mark |-> mark,
     mark2 |-> mark2, before |-> before, end1 |-> end1, end2 |-> end2,
     after |-> after, hi |-> hi]

\* the loop statement that encloses the current position most closely in
\* the syntax tree (its entry node), None outside every loop
EnclosingLoop ==
    LET L == {i \in 1..Len(frames) : frames[i].kind = "Loop"}
    IN  IF L = {} THEN None
        ELSE frames[CHOOSE i \in L : \A j \in L : j <= i].node

\* history of a break / continue statement whose node is NumNodes(Self)
JumpFact(kind) ==
    {Fact(kind, "", NumNodes(Self), EnclosingLoop, None, {}, {}, {}, {}, 0)}

\* history of the first node a statement makes right after a break or a
\* continue of the same block: its predecessors when it was created
NextFact(g) ==
    IF Top(frames).prev \in {"Break", "Continue"} /\ NumNodes(g) > NumNodes(Self)
    THEN {Fact("next", Top(frames).prev, NumNodes(Self), None, None,
               Deref(g, g.nodes[NumNodes(Self)].preds), {}, {}, {}, 0)}
    ELSE {}

\* a statement of the current block has been visited; prev is the class of
\* the last one that made a node: "Break", "Continue", "Stmt" (another
\* simple statement), "If", "Loop", "Def"; "Noop" (no node) leaves it
Visited(fr, kind) ==
    [fr EXCEPT ![Len(fr)].nonempty = TRUE,
               ![Len(fr)].prev = IF kind = "Noop" THEN @ ELSE kind]

\* history record of a call expression visited with builder state g
CallRec(g, e) ==
    IF e \in Callees
    THEN {[callee |-> e, front |-> Deref(g, Top(g.stack_preds)),
           def |-> IF e \in FuncKeys THEN g.functions[e] ELSE None]}
    ELSE {}

\* the bounds on the program being traversed
Count(types) == Cardinality({k \in DOMAIN nodes : nodes[k].type \in types})

RoomSimple == Count({"none"}) < MaxSimple

RoomCompound == Count({"if", "def"}) < MaxCompound /\ Len(frames) <= MaxDepth

RoomCall(e) == e \in Callees => Cardinality(calls) < MaxCalls

Visiting == gtype = "cfg" /\ pc = "visit"

\* a simple statement with handler result g; visits: generic_visit ran last
Simple(op, e, g, visits) ==
    /\ Commit(g)
    /\ frames' = Visited(frames, op)
    /\ calls' = calls \cup
          (IF visits THEN CallRec(g, e) ELSE {})
    /\ log' = log \cup NextFact(g) \cup
          (IF op \in {"Break", "Continue"} THEN JumpFact(op) ELSE {})
    /\ UNCHANGED <<dfgvars, gtype, pc>>

Build ==
    /\ gtype = "cfg" /\ pc = "init"
    /\ Commit(BuildEnter)
    /\ frames' = <<Frame("Module", None, None, None, None, None, {})>>
    /\ pc' = "visit"
    /\ UNCHANGED <<dfgvars, gtype, log, calls>>

Finish ==
    /\ Visiting /\ Len(frames) = 1
    /\ Commit(BuildExit(Self))
    /\ pc' = "done"
    /\ log' = log \cup
          {Fact("module", "", NumNodes(Self), None, None, {}, Frontier, {}, {}, 0)}
    /\ UNCHANGED <<dfgvars, gtype, frames, calls>>

Assign(e) ==
    /\ Visiting /\ RoomSimple /\ RoomCall(e)
    /\ Simple("Stmt", e, visit_Assign(Self, e), TRUE)

Return(e) ==
    /\ Visiting /\ RoomSimple /\ RoomCall(e)
    /\ Simple("Stmt", e, visit_Return(Self, e), TRUE)

Raise ==
    /\ Visiting /\ RoomSimple
    /\ Simple("Stmt", NoCall, visit_Raise(Self), FALSE)

Pass ==
    /\ Visiting /\ RoomSimple
    /\ Simple("Stmt", NoCall, visit_Pass(Self), FALSE)

Expr(e) ==
    /\ Visiting /\ (has_effect(e) => RoomSimple) /\ RoomCall(e)
    /\ Simple(IF has_effect(e) THEN "Stmt" ELSE "Noop", e, visit_Expr(Self, e), TRUE)

\* an unhandled statement: no node, its calls see the frontier as it is
Other(e) ==
    /\ Visiting /\ RoomCall(e)
    /\ Commit(visit_Other(Self, e))
    /\ frames' = Visited(frames, "Noop")
    /\ calls' = calls \cup CallRec(Self, e)
    /\ UNCHANGED <<dfgvars, gtype, pc, log>>

Break ==
    /\ Visiting /\ RoomSimple /\ InLoop(Self)
    /\ Simple("Break", NoCall, visit_Break(Self), FALSE)

Continue ==
    /\ Visiting /\ RoomSimple /\ InLoop(Self)
    /\ Simple("Continue", NoCall, visit_Continue(Self), FALSE)

\* break / continue with no loop context: IndexError leaves build()
BreakOutsideLoop ==
    /\ Visiting /\ ~InLoop(Self)
    /\ pc' = "error"
    /\ UNCHANGED <<dfgvars, gtype, nodes, heap, functions, stack_class, stack_function,
                   stack_loop, stack_preds, frames, log, calls>>

\* history record of a finished construct; tag tells whether its last body
\* held a statement, hi is the number of nodes when it finished
Done(kind, fr, end1, end2, after) ==
    Fact(kind, IF fr.nonempty THEN "body" ELSE "", fr.node, fr.mark, fr.mark2,
         fr.before, end1, end2, after, NumNodes(Self))

\* a handler suspends in a visit of its body: the enclosing block's own
\* history restarts when the handler returns
Enter(fr) ==
    Append([frames EXCEPT ![Len(frames)].nonempty = TRUE,
                          ![Len(frames)].prev = ""], fr)

\* for / while: entry node, both markers, loop context
LoopBegin(e) ==
    /\ Visiting /\ RoomCompound /\ RoomCall(e)
    /\ LET g == LoopEnter(Self, e)
       IN  /\ Commit(g)
           /\ frames' = Enter(
                 Frame("Loop", Top(g.stack_loop).cn_enter,
                       Top(g.stack_loop).cn_exits, NumNodes(Self),
                       Newest(g, "if_false"), Newest(g, "if_true"), Frontier))
           /\ calls' = calls \cup CallRec(add_node(Self, Text, "if"), e)
           /\ log' = log \cup NextFact(g)
    /\ UNCHANGED <<dfgvars, gtype, pc>>

\* visit_While: the test expression is visited
While(e) == LoopBegin(e)

\* visit_For, visit_AsyncFor: target and iter are visited
For(e) == LoopBegin(e)

\* for / while: back-edge, the exit set becomes the frontier
LoopEnd ==
    /\ Visiting /\ Len(frames) > 1
    /\ Top(frames).kind = "Loop" /\ Top(frames).nonempty
    /\ LET fr == Top(frames)
           g == LoopExit(Self, fr.cn_enter, fr.cn_exits)
       IN  /\ Commit(g)
           /\ frames' = Visited(Pop(frames), "Loop")
           /\ log' = log \cup
                 {Done("loop", fr, Frontier, {}, Deref(g, Top(g.stack_preds)))}
    /\ UNCHANGED <<dfgvars, gtype, pc, calls>>

IfBegin(e) ==
    /\ Visiting /\ RoomCompound /\ RoomCall(e)
    /\ LET g == IfEnter(Self, e)
       IN  /\ Commit(g)
           /\ frames' = Enter(
                 Frame("If", None, None, NumNodes(Self),
                       Newest(g, "if_true"), None, Frontier))
           /\ log' = log \cup NextFact(g)
    /\ calls' = calls \cup CallRec(add_node(Self, Text, "if"), e)
    /\ UNCHANGED <<dfgvars, gtype, pc>>

\* end of the true body: cn_if is kept, the false marker starts orelse
IfOrElse ==
    /\ Visiting /\ Len(frames) > 1
    /\ Top(frames).kind = "If" /\ Top(frames).nonempty
    /\ Commit(IfElse(Self))
    /\ frames' = [frames EXCEPT ![Len(frames)] =
          [@ EXCEPT !.kind = "Else", !.nonempty = FALSE, !.prev = "",
                    !.cn_if = Top(stack_preds), !.end1 = Frontier,
                    !.mark2 = Newest(IfElse(Self), "if_false")]]
    /\ UNCHANGED <<dfgvars, gtype, pc, log, calls>>

IfEnd ==
    /\ Visiting /\ Len(frames) > 1
    /\ Top(frames).kind = "Else"
    /\ LET fr == Top(frames)
           g == IfExit(Self, fr.cn_if)
       IN  /\ Commit(g)
           /\ frames' = Visited(Pop(frames), "If")
           /\ log' = log \cup
                 {Done("if", fr, fr.end1, Frontier, Deref(g, Top(g.stack_preds)))}
    /\ UNCHANGED <<dfgvars, gtype, pc, calls>>

FunctionDefBegin(name) ==
    /\ Visiting /\ RoomCompound
    /\ LET g == FunctionDefEnter(Self, name)
       IN  /\ Commit(g)
           /\ log' = log \cup NextFact(g)
    /\ frames' = Enter(
          Frame("FunctionDef", None, None, NumNodes(Self), None, None, Frontier))
    /\ UNCHANGED <<dfgvars, gtype, pc, calls>>

FunctionDefEnd ==
    /\ Visiting /\ Len(frames) > 1
    /\ Top(frames).kind = "FunctionDef" /\ Top(frames).nonempty
    /\ LET fr == Top(frames)
           g == FunctionDefExit(Self)
       IN  /\ Commit(g)
           /\ frames' = Visited(Pop(frames), "Def")
           /\ log' = log \cup
                 {Done("def", fr, Frontier, {}, Deref(g, Top(g.stack_preds)))}
    /\ UNCHANGED <<dfgvars, gtype, pc, calls>>

ClassDefBegin(name) ==
    /\ Visiting /\ RoomCompound
    /\ LET g == ClassDefEnter(Self, name)
       IN  /\ Commit(g)
           /\ log' = log \cup NextFact(g)
    /\ frames' = Enter(
          Frame("ClassDef", None, None, NumNodes(Self), None, None, Frontier))
    /\ UNCHANGED <<dfgvars, gtype, pc, calls>>

ClassDefEnd ==
    /\ Visiting /\ Len(frames) > 1
    /\ Top(frames).kind = "ClassDef" /\ Top(frames).nonempty
    /\ LET fr == Top(frames)
           g == ClassDefExit(Self)
       IN  /\ Commit(g)
           /\ frames' = Visited(Pop(frames), "Def")
           /\ log' = log \cup
                 {Done("def", fr, Frontier, {}, Deref(g, Top(g.stack_preds)))}
    /\ UNCHANGED <<dfgvars, gtype, pc, calls>>

\* ------------------------------------------------------------------------
\* DataFlowGraph (python/codeflow/dfg.py)
\* ------------------------------------------------------------------------
\* Bounds of the explored inputs: nodes over all graphs of a program,
\* function definitions (each one builds a graph of its own), statements of
\* a program, its compound statements, and their nesting
MaxDfgNodes == 12

MaxDfgDefs == 1

MaxDfgStmts == 4

MaxDfgBlocks == 2

MaxDfgDepth == 2

\* operator and call expressions in one program
MaxDfgOps == 1

\* variable names, a literal constant, parameter lists
Vars == {"x", "y"}

Const == "1"

Values == Vars \cup {Const}

\* the expressions in the head of a compound statement
Heads == {"x", Const}

ParamLists == {<<>>, <<"x">>}

\* the targets of an assignment with more than one target
TargetLists == {<<"x", "y">>}

\* literal constants that occur as operands
Literals == {"1", "2"}

\* the values of assignments x = <expression>: binary operations l + r,
\* comparisons l < r with one operator, and calls f(args) of a plain name
DfgExprs ==
    {[kind |-> "BinOp", args |-> a] :
        a \in {<<"x", "1">>, <<"1", "x">>, <<"2", "1">>, <<"x", "y">>, <<"x", "x">>}}
    \cup {[kind |-> "Compare", args |-> a] : a \in {<<"x", "1">>, <<"2", "1">>}}
    \cup {[kind |-> "Call", args |-> a] : a \in {<<"y", "x">>, <<"x", "x">>}}

\* an empty dict
EmptyDict == [n \in {} |-> None]

\* d[k] = v
DictPut(d, k, v) == [n \in DOMAIN d \cup {k} |-> IF n = k THEN v ELSE d[n]]

\* an OrderedSet is a sequence without repetition; OrderedSet.add
OrderedSetAdd(s, x) ==
    IF \E i \in DOMAIN s : s[i] = x THEN s ELSE Append(s, x)

\* adding the elements of xs in their order
RECURSIVE OrderedSetUpdate(_, _)
OrderedSetUpdate(s, xs) ==
    IF xs = <<>> THEN s
    ELSE OrderedSetUpdate(OrderedSetAdd(s, Head(xs)), Tail(xs))

\* Node.__init__: preds is copied into an OrderedSet of the node's own
Node(id, label, type, preds) ==
    [id |-> id, label |-> label, type |-> type,
     preds |-> OrderedSetUpdate(<<>>, preds)]

\* DataFlowGraph.__init__; trace is the history of what the builder did
DataFlowGraph ==
    [inputs |-> EmptyDict, outputs |-> {},
     functions |-> [k \in FuncKeys |-> None], nodes |-> <<>>,
     stack_class |-> <<>>, stack_names |-> <<EmptyDict>>,
     stack_preds |-> << <<>> >>, trace |-> <<>>]

\* the names that have a binding in some frame of _stack_names
Bound(b) == UNION {DOMAIN b.stack_names[i] : i \in 1..Len(b.stack_names)}

\* one entry of the history: op is "stmt" (a statement is entered, name is
\* its kind), "else", "end" (node is the place of the statement's "stmt"
\* entry), "read" (a load found the binding node in frame), "new" (a load
\* found none and made node), "write" (a store made node) or "merge" (the
\* node made after an if); depth and bound are taken when the entry is made
Ev(op, name, node, frame, b) ==
    [op |-> op, name |-> name, node |-> node, frame |-> frame,
     depth |-> Len(b.stack_names), bound |-> Bound(b)]

Note(b, op, name, node, frame) ==
    [b EXCEPT !.trace = Append(@, Ev(op, name, node, frame, b))]

\* the innermost frame of _stack_names that holds name, 0 if none does
Declaring(b, name) ==
    LET L == {i \in 1..Len(b.stack_names) : name \in DOMAIN b.stack_names[i]}
    IN  IF L = {} THEN 0 ELSE CHOOSE i \in L : \A j \in L : j <= i

get_symbol(b, name) ==
    IF Declaring(b, name) = 0 THEN None
    ELSE b.stack_names[Declaring(b, name)][name]

\* variant: the name is always declared in the innermost frame
put_symbol_innermost(b, name, dn) ==
    LET b1 == IF name \in DOMAIN b.inputs /\ b.inputs[name] = None
              THEN [b EXCEPT !.inputs[name] = dn] ELSE b
    IN  [b1 EXCEPT !.stack_names[Len(b.stack_names)] = DictPut(@, name, dn)]

put_symbol(b, name, dn) ==
    LET b1 == IF name \in DOMAIN b.inputs /\ b.inputs[name] = None
              THEN [b EXCEPT !.inputs[name] = dn] ELSE b
        i == IF Declaring(b, name) = 0 THEN Len(b.stack_names)
             ELSE Declaring(b, name)
    IN  [b1 EXCEPT !.stack_names[i] = DictPut(@, name, dn)]

\* variant: ids are counted from one
dfg_add_node_from_one(b, label, type, preds, update_preds) ==
    LET id == NumNodes(b) + 1
        dn == Node(id, label, type, preds)
        b1 == [b EXCEPT !.nodes = [k \in DOMAIN b.nodes \cup {id} |->
                                      IF k = id THEN dn ELSE b.nodes[k]]]
    IN  IF update_preds
        THEN [b1 EXCEPT !.stack_preds[Len(b1.stack_preds)] = OrderedSetAdd(@, id)]
        ELSE b1

\* DataFlowGraph.add_node; the new node is NumNodes(b)
dfg_add_node(b, label, type, preds, update_preds) ==
    LET id == NumNodes(b)
        dn == Node(id, label, type, preds)
        b1 == [b EXCEPT !.nodes = [k \in DOMAIN b.nodes \cup {id} |->
                                      IF k = id THEN dn ELSE b.nodes[k]]]
    IN  IF update_preds
        THEN [b1 EXCEPT !.stack_preds[Len(b1.stack_preds)] = OrderedSetAdd(@, id)]
        ELSE b1

\* Node.add_predecessors
dfg_add_predecessors(b, id, xs) ==
    [b EXCEPT !.nodes[id].preds = OrderedSetUpdate(@, xs)]

\* visit_with_preds: a new OrderedSet collects what the visits add ...
PushPreds(b) == [b EXCEPT !.stack_preds = Append(@, <<>>)]

\* ... and is popped and returned
PopPreds(b) == [b EXCEPT !.stack_preds = Pop(@)]

\* variant: a load makes a node whether the name is bound or not
dfg_visit_Name_unresolved(b, name, ctx) ==
    LET b1 == put_symbol(dfg_add_node(b, name, "name", <<>>, TRUE),
                         name, NumNodes(b))
    IN  Note(b1, IF ctx = "Load" THEN "new" ELSE "write", name,
             NumNodes(b), Declaring(b1, name))

\* visit_Name in a Load (or Del) context and in a Store context
dfg_visit_Name(b, name, ctx) ==
    IF ctx = "Load" /\ get_symbol(b, name) # None
    THEN Note([b EXCEPT !.stack_preds[Len(b.stack_preds)] =
                           OrderedSetAdd(@, get_symbol(b, name))],
              "read", name, get_symbol(b, name), Declaring(b, name))
    ELSE LET b1 == put_symbol(dfg_add_node(b, name, "name", <<>>, TRUE),
                              name, NumNodes(b))
         IN  Note(b1, IF ctx = "Load" THEN "new" ELSE "write", name,
                  NumNodes(b), Declaring(b1, name))

\* visit_Num (via NodeVisitor.visit_Constant)
dfg_visit_Num(b) == dfg_add_node(b, Const, "constant", <<>>, TRUE)

\* visit of a value expression: a literal or a name that is read
dfg_visit_value(b, v) ==
    IF v = Const THEN dfg_visit_Num(b) ELSE dfg_visit_Name(b, v, "Load")

\* for dn in outputs: dn.add_predecessors(*inputs)
RECURSIVE ConnectAll(_, _, _)
ConnectAll(b, outputs, inputs) ==
    IF outputs = <<>> THEN b
    ELSE ConnectAll(dfg_add_predecessors(b, Head(outputs), inputs),
                    Tail(outputs), inputs)

\* variant: the targets are visited before the value
dfg_visit_Assign_targets_first(b, target, value) ==
    LET b1 == dfg_visit_Name(PushPreds(b), target, "Store")
        outputs == Top(b1.stack_preds)
        b2 == dfg_visit_value(PushPreds(PopPreds(b1)), value)
        inputs == Top(b2.stack_preds)
        b3 == ConnectAll(PopPreds(b2), outputs, inputs)
    IN  [b3 EXCEPT !.stack_preds[Len(b3.stack_preds)] =
                      OrderedSetUpdate(@, outputs)]

dfg_visit_Assign(b, target, value) ==
    LET b1 == dfg_visit_value(PushPreds(b), value)
        inputs == Top(b1.stack_preds)
        b2 == dfg_visit_Name(PushPreds(PopPreds(b1)), target, "Store")
        outputs == Top(b2.stack_preds)
        b3 == ConnectAll(PopPreds(b2), outputs, inputs)
    IN  [b3 EXCEPT !.stack_preds[Len(b3.stack_preds)] =
                      OrderedSetUpdate(@, outputs)]

\* visit_with_preds(*ast_node.targets) of an assignment x = y = value
RECURSIVE StoreAll(_, _)
StoreAll(b, targets) ==
    IF targets = <<>> THEN b
    ELSE StoreAll(dfg_visit_Name(b, Head(targets), "Store"), Tail(targets))

\* visit_Assign of an assignment with several targets
dfg_visit_Assign_targets(b, targets, value) ==
    LET b1 == dfg_visit_value(PushPreds(b), value)
        inputs == Top(b1.stack_preds)
        b2 == StoreAll(PushPreds(PopPreds(b1)), targets)
        outputs == Top(b2.stack_preds)
        b3 == ConnectAll(PopPreds(b2), outputs, inputs)
    IN  [b3 EXCEPT !.stack_preds[Len(b3.stack_preds)] =
                      OrderedSetUpdate(@, outputs)]

\* visit of an operand: a literal (visit_Num) or a name that is read
dfg_visit_operand(b, v) ==
    IF v \in Literals THEN dfg_add_node(b, v, "constant", <<>>, TRUE)
    ELSE dfg_visit_Name(b, v, "Load")

\* the loop of visit_with_preds over its arguments
RECURSIVE VisitAll(_, _)
VisitAll(b, vs) ==
    IF vs = <<>> THEN b
    ELSE VisitAll(dfg_visit_operand(b, Head(vs)), Tail(vs))

\* return self._stack_preds.pop(): the builder and the popped frontier
Popped(b) == [b |-> PopPreds(b), preds |-> Top(b.stack_preds)]

\* visit_with_preds(*ast_nodes): the builder after the visits and the
\* frontier that they filled
visit_with_preds(b, vs) == Popped(VisitAll(PushPreds(b), vs))

\* preds += s
Extended(preds, s) == [b |-> s.b, preds |-> preds \o s.preds]

\* if isinstance(lit, ast.Constant): preds += self.visit_with_preds(other)
Inline(r, lit, other) ==
    IF lit \in Literals
    THEN Extended(r.preds, visit_with_preds(r.b, <<other>>))
    ELSE r

\* return label, preds
Labelled(r, label) == [b |-> r.b, label |-> label, preds |-> r.preds]

\* the last part of inline_binary_op, r being what the two tests left
InlineLabel(r, op, left, right) ==
    IF Len(r.preds) = 0
    THEN Labelled(visit_with_preds(r.b, <<left, right>>), op)
    ELSE Labelled(r, (IF left \in Literals THEN left ELSE "_") \o " " \o op
                     \o " " \o (IF right \in Literals THEN right ELSE "_"))

\* inline_binary_op: the builder after the visits, the label and the list of
\* predecessors
inline_binary_op(b, op, left, right) ==
    InlineLabel(Inline(Inline([b |-> b, preds |-> <<>>], left, right),
                       right, left),
                op, left, right)

\* self.add_node(label=label, type='op', preds=preds); the history gets an
\* entry "op" with the label and the id of the new node
AddOp(r) ==
    Note(dfg_add_node(r.b, r.label, "op", r.preds, TRUE),
         "op", r.label, NumNodes(r.b), 0)

\* visit_BinOp and visit_Compare with one operator
dfg_visit_binary(b, op, left, right) ==
    AddOp(inline_binary_op(b, op, left, right))

\* the end of visit_Call: label, predecessors, frontier
Called(r, dn_func) ==
    Note([r.b EXCEPT !.nodes[dn_func].label = @ \o "()",
                     !.nodes[dn_func].preds = OrderedSetUpdate(@, r.preds),
                     !.stack_preds[Len(r.b.stack_preds)] =
                         OrderedSetAdd(@, dn_func)],
         "op", r.b.nodes[dn_func].label \o "()", dn_func, 0)

\* visit_Call of a call whose func is a plain name
dfg_visit_Call(b, func, args) ==
    Called(visit_with_preds(dfg_add_node(b, func, "name", <<>>, TRUE), args),
           NumNodes(b))

\* visit dispatches an expression to its handler
dfg_visit_expr(b, e) ==
    IF e.kind = "Call" THEN dfg_visit_Call(b, "f", e.args)
    ELSE dfg_visit_binary(b, IF e.kind = "BinOp" THEN "+" ELSE "<",
                          e.args[1], e.args[2])

\* the history gets the expression as it is written: an entry "expr" with
\* its kind and the id that the next new node will have, then one entry
\* "operand" for each operand, in the order of the source text
RECURSIVE Operands(_, _)
Operands(b, vs) ==
    IF vs = <<>> THEN b
    ELSE Operands(Note(b, "operand", Head(vs), None, 0), Tail(vs))

Written(b, e) == Operands(Note(b, "expr", e.kind, NumNodes(b), 0), e.args)

\* the end of visit_Assign: the targets in outputs get the predecessors
\* inputs and enter the frontier
Connected(b, outputs, inputs) ==
    [b EXCEPT !.nodes = ConnectAll(b, outputs, inputs).nodes,
              !.stack_preds[Len(b.stack_preds)] = OrderedSetUpdate(@, outputs)]

\* outputs = self.visit_with_preds(*ast_node.targets), then the end
Stored(r, inputs) == Connected(r.b, r.preds, inputs)

\* inputs = self.visit_with_preds(ast_node.value), then the targets
Valued(r, target) ==
    Stored(Popped(dfg_visit_Name(PushPreds(r.b), target, "Store")), r.preds)

\* visit_Assign of an assignment whose value is an operator or call
dfg_visit_Assign_expr(b, target, e) ==
    Valued(Popped(dfg_visit_expr(PushPreds(Written(b, e)), e)), target)

\* visit_Return: only a returned name (or tuple) is looked at
dfg_visit_Return(b, value) ==
    IF value \in Vars
    THEN dfg_visit_Name([b EXCEPT !.outputs = @ \cup {value}], value, "Load")
    ELSE b

\* variant: the new builder starts with a binding of the enclosing graph
build_from_nodes_inherits(params) ==
    [DataFlowGraph EXCEPT
        !.inputs = [n \in {params[i] : i \in DOMAIN params} |-> None],
        !.stack_names = <<[n \in {"x"} |-> 0]>>]

\* build_from_nodes on a new DataFlowGraph, before the body is visited
build_from_nodes(params) ==
    [DataFlowGraph EXCEPT
        !.inputs = [n \in {params[i] : i \in DOMAIN params} |-> None]]

\* visit dispatches a statement to its handler
Stmt(b, kind) == Note(b, "stmt", kind, None, 0)

\* the orders in which a set of names can be iterated
Orders(S) ==
    {o \in [1..Cardinality(S) -> S] : \A i, j \in DOMAIN o : o[i] = o[j] => i = j}

\* visit_If, lines 369-370: the test is visited, then the body starts
dfg_visit_If_enter(b, test) ==
    PushPreds(PopPreds(dfg_visit_value(PushPreds(Stmt(b, "If")), test)))

\* the first node the test left: dn_test
dfg_visit_If_test(b, test) ==
    Top(dfg_visit_value(PushPreds(Stmt(b, "If")), test).stack_preds)[1]

\* labels of the Name nodes among preds
NameLabels(b, preds) ==
    {b.nodes[preds[i]].label : i \in {j \in DOMAIN preds : b.nodes[preds[j]].type = "name"}}

\* variant: a name that either branch leaves is merged
SharedOutputs_either(b, preds_true, preds_false) ==
    NameLabels(b, preds_true) \cup NameLabels(b, preds_false)

\* visit_If, lines 374-376
SharedOutputs(b, preds_true, preds_false) ==
    NameLabels(b, preds_true) \cap NameLabels(b, preds_false)

\* visit_If, lines 385-386, for the outputs in the order of iteration
RECURSIVE MergeOutputs(_, _, _)
MergeOutputs(b, order, dn_if) ==
    IF order = <<>> THEN b
    ELSE LET b1 == put_symbol(dfg_add_node(b, Head(order), "name", <<dn_if>>, TRUE),
                              Head(order), NumNodes(b))
         IN  MergeOutputs(Note(b1, "merge", Head(order), NumNodes(b),
                               Declaring(b1, Head(order))),
                          Tail(order), dn_if)

\* visit_If, lines 374-386, once both branches were visited
dfg_visit_If_exit(b, dn_test, preds_true, preds_false, order) ==
    LET outputs == SharedOutputs(b, preds_true, preds_false)
        pt == SelectSeq(preds_true, LAMBDA p : b.nodes[p].label \in outputs)
        pf == SelectSeq(preds_false, LAMBDA p : b.nodes[p].label \in outputs)
        dn_true == NumNodes(b)
        b1 == dfg_add_node(b, "true", "op", pt, TRUE)
        b2 == dfg_add_node(b1, "false", "op", pf, TRUE)
        b3 == dfg_add_node(b2, "if", "op", <<dn_test, dn_true, dn_true + 1>>, TRUE)
    IN  MergeOutputs(b3, order, dn_true + 2)

\* a new frame of _stack_names, and its removal
PushNames(b) == [b EXCEPT !.stack_names = Append(@, EmptyDict)]

PopNames(b) == [b EXCEPT !.stack_names = Pop(@)]

\* visit_For, lines 340-342, up to the first statement of the body
dfg_visit_For_enter(b, target, iter) ==
    dfg_visit_value(
        dfg_visit_Name(PushPreds(PushNames(Stmt(b, "For"))), target, "Store"),
        iter)

\* visit_For, lines 342-347, after the last statement of the body
dfg_visit_For_exit(b) ==
    dfg_add_node(PopNames(PopPreds(b)), "for", "op", Top(b.stack_preds), TRUE)

\* visit_While, line 360, up to the first statement of the body
dfg_visit_While_enter(b, test) ==
    dfg_visit_value(PushPreds(Stmt(b, "While")), test)

\* visit_While, lines 360-362, after the last statement of the body
dfg_visit_While_exit(b) ==
    dfg_add_node(PopPreds(b), "while", "op", Top(b.stack_preds), TRUE)

\* visit_With, lines 392-394: one item without a target
dfg_visit_With_enter(b, item) ==
    dfg_visit_value(PushPreds(PushNames(Stmt(b, "With"))), item)

\* visit_With, lines 394-397
dfg_visit_With_exit(b) ==
    dfg_add_node(PopNames(PopPreds(b)), "with", "op", Top(b.stack_preds), TRUE)

\* visit_ClassDef, lines 271-274: no bases, no keywords
dfg_visit_ClassDef_enter(b, name) ==
    LET b0 == Stmt(b, "ClassDef")
    IN  PushPreds(PushNames([b0 EXCEPT !.stack_class = Append(@, name)]))

\* visit_ClassDef, lines 274-279
dfg_visit_ClassDef_exit(b) ==
    LET label == Top(b.stack_class)
        b1 == PopNames([PopPreds(b) EXCEPT !.stack_class = Pop(@)])
        b2 == put_symbol(dfg_add_node(b1, label, "name", Top(b.stack_preds), TRUE),
                         label, NumNodes(b))
    IN  Note(b2, "write", label, NumNodes(b), Declaring(b2, label))

\* the builder that is running, and the nodes of all graphs
Running == graphs[Top(active).graph]

TotalNodes ==
    LET RECURSIVE Sum(_)
        Sum(i) == IF i = 0 THEN 0 ELSE NumNodes(graphs[i]) + Sum(i - 1)
    IN  Sum(Len(graphs))

RoomNode == TotalNodes < MaxDfgNodes

\* the statements entered so far, over all graphs
TotalStmts ==
    LET RECURSIVE Sum(_)
        Sum(i) == IF i = 0 THEN 0
                  ELSE Len(SelectSeq(graphs[i].trace, LAMBDA e : e.op = "stmt"))
                       + Sum(i - 1)
    IN  Sum(Len(graphs))

RoomStmt == RoomNode /\ TotalStmts < MaxDfgStmts

\* the compound statements among them
TotalBlocks ==
    LET RECURSIVE Sum(_)
        Sum(i) == IF i = 0 THEN 0
                  ELSE Len(SelectSeq(graphs[i].trace, LAMBDA e :
                              e.op = "stmt" /\ e.name \notin {"Assign", "Return"}))
                       + Sum(i - 1)
    IN  Sum(Len(graphs))

\* the operator and call expressions visited so far, over all graphs
TotalOps ==
    LET RECURSIVE Sum(_)
        Sum(i) == IF i = 0 THEN 0
                  ELSE Len(SelectSeq(graphs[i].trace, LAMBDA e : e.op = "expr"))
                       + Sum(i - 1)
    IN  Sum(Len(graphs))

RoomOp == RoomStmt /\ TotalOps < MaxDfgOps

RoomBlock ==
    /\ RoomStmt
    /\ TotalBlocks < MaxDfgBlocks
    /\ Len(active) <= MaxDfgDepth

VisitingDfg == gtype = "dfg" /\ pc = "visit"

\* a handler whose statements are being visited: the builder it runs in, what
\* it is, the place of its "stmt" entry in the trace, and its locals
Handler(graph, kind, label, begin, dn_test, preds_true) ==
    [graph |-> graph, kind |-> kind, label |-> label, nonempty |-> FALSE,
     begin |-> begin, dn_test |-> dn_test, preds_true |-> preds_true]

\* a statement handler of the running builder returned b
DfgStep(b) ==
    /\ graphs' = [graphs EXCEPT ![Top(active).graph] = b]
    /\ active' = [active EXCEPT ![Len(active)].nonempty = TRUE]
    /\ UNCHANGED <<gtype, pc, cfgvars>>

\* a compound statement of the running builder starts on its body
DfgBlock(b, kind, dn_test) ==
    /\ graphs' = [graphs EXCEPT ![Top(active).graph] = b]
    /\ active' = Append([active EXCEPT ![Len(active)].nonempty = TRUE],
          Handler(Top(active).graph, kind, "", Len(Running.trace) + 1,
                  dn_test, <<>>))
    /\ UNCHANGED <<gtype, pc, cfgvars>>

\* the body of a compound statement is over: b is what its handler leaves
DfgBlockEnd(b, kind) ==
    /\ graphs' = [graphs EXCEPT ![Top(active).graph] =
                      Note(b, "end", kind, Top(active).begin, 0)]
    /\ active' = Pop(active)
    /\ UNCHANGED <<gtype, pc, cfgvars>>

InBody(kind) == VisitingDfg /\ Top(active).kind = kind /\ Top(active).nonempty

\* DataFlowGraph() of cli.create_dfg
DfgBuild ==
    /\ gtype = "dfg" /\ pc = "init"
    /\ graphs' = <<DataFlowGraph>>
    /\ active' = <<Handler(1, "Module", "", 0, None, <<>>)>>
    /\ pc' = "visit"
    /\ UNCHANGED <<gtype, cfgvars>>

\* build() returns
DfgFinish ==
    /\ VisitingDfg /\ Len(active) = 1
    /\ pc' = "done"
    /\ UNCHANGED <<gtype, cfgvars, dfgvars>>

DfgAssign(target, value) ==
    /\ VisitingDfg /\ RoomStmt
    /\ DfgStep(dfg_visit_Assign(Stmt(Running, "Assign"), target, value))

\* x = y = 1
DfgAssignChain(targets) ==
    /\ VisitingDfg /\ RoomStmt
    /\ DfgStep(dfg_visit_Assign_targets(Stmt(Running, "Assign"), targets, Const))

\* x = l + r, x = l < r, x = f(args)
DfgAssignExpr(e) ==
    /\ VisitingDfg /\ RoomOp
    /\ DfgStep(dfg_visit_Assign_expr(Stmt(Running, "Assign"), "x", e))

DfgReturn(value) ==
    /\ VisitingDfg /\ RoomStmt
    /\ DfgStep(dfg_visit_Return(Stmt(Running, "Return"), value))

DfgIfBegin(test) ==
    /\ VisitingDfg /\ RoomBlock
    /\ DfgBlock(dfg_visit_If_enter(Running, test), "If",
                dfg_visit_If_test(Running, test))

\* visit_If, line 371: the body is over, orelse starts
DfgIfOrElse ==
    /\ InBody("If")
    /\ graphs' = [graphs EXCEPT ![Top(active).graph] =
          Note(PushPreds(PopPreds(Running)), "else", "If", Top(active).begin, 0)]
    /\ active' = [active EXCEPT ![Len(active)] =
          [@ EXCEPT !.kind = "Else", !.nonempty = FALSE,
                    !.preds_true = Top(Running.stack_preds)]]
    /\ UNCHANGED <<gtype, pc, cfgvars>>

\* visit_If returns; without orelse, its frontier is empty
DfgIfEnd ==
    /\ InBody("If") \/ InBody("Else")
    /\ LET fr == Top(active)
           b == PopPreds(Running)
           preds_true == IF fr.kind = "If" THEN Top(Running.stack_preds)
                         ELSE fr.preds_true
           preds_false == IF fr.kind = "If" THEN <<>>
                          ELSE Top(Running.stack_preds)
       IN  \E order \in Orders(SharedOutputs(b, preds_true, preds_false)) :
              DfgBlockEnd(dfg_visit_If_exit(b, fr.dn_test, preds_true,
                                            preds_false, order), "If")

DfgFor(target, iter) ==
    /\ VisitingDfg /\ RoomBlock
    /\ DfgBlock(dfg_visit_For_enter(Running, target, iter), "For", None)

DfgForEnd ==
    /\ InBody("For")
    /\ DfgBlockEnd(dfg_visit_For_exit(Running), "For")

DfgWhile(test) ==
    /\ VisitingDfg /\ RoomBlock
    /\ DfgBlock(dfg_visit_While_enter(Running, test), "While", None)

DfgWhileEnd ==
    /\ InBody("While")
    /\ DfgBlockEnd(dfg_visit_While_exit(Running), "While")

DfgWith(item) ==
    /\ VisitingDfg /\ RoomBlock
    /\ DfgBlock(dfg_visit_With_enter(Running, item), "With", None)

DfgWithEnd ==
    /\ InBody("With")
    /\ DfgBlockEnd(dfg_visit_With_exit(Running), "With")

DfgClassDef(name) ==
    /\ VisitingDfg /\ RoomBlock
    /\ DfgBlock(dfg_visit_ClassDef_enter(Running, name), "ClassDef", None)

DfgClassDefEnd ==
    /\ InBody("ClassDef")
    /\ DfgBlockEnd(dfg_visit_ClassDef_exit(Running), "ClassDef")

\* visit_FunctionDef: a new builder starts on the function's body
DfgFunctionDefBegin(name, params) ==
    /\ VisitingDfg /\ RoomBlock /\ Len(graphs) <= MaxDfgDefs
    /\ graphs' = Append([graphs EXCEPT ![Top(active).graph] =
                            Stmt(@, "FunctionDef")],
                        build_from_nodes(params))
    /\ active' = Append([active EXCEPT ![Len(active)].nonempty = TRUE],
          Handler(Len(graphs) + 1, "FunctionDef",
                  IF Len(Running.stack_class) > 0
                  THEN Top(Running.stack_class) \o "." \o name ELSE name,
                  Len(Running.trace) + 1, None, <<>>))
    /\ UNCHANGED <<gtype, pc, cfgvars>>

\* visit_FunctionDef: the finished subgraph is registered under the label
DfgFunctionDefEnd ==
    /\ InBody("FunctionDef")
    /\ graphs' = [graphs EXCEPT ![active[Len(active) - 1].graph] =
          Note([@ EXCEPT !.functions[Top(active).label] = Top(active).graph],
               "end", "FunctionDef", Top(active).begin, 0)]
    /\ active' = Pop(active)
    /\ UNCHANGED <<gtype, pc, cfgvars>>

\* ------------------------------------------------------------------------
\* Specification
\* ------------------------------------------------------------------------
Init ==
    /\ gtype = "cfg"
    /\ pc = "init"
    /\ nodes = <<>>
    /\ heap = <<>>
    /\ functions = [k \in FuncKeys |-> None]
    /\ stack_class = <<>>
    /\ stack_function = <<>>
    /\ stack_loop = <<>>
    /\ stack_preds = <<>>
    /\ frames = <<>>
    /\ log = {}
    /\ calls = {}
    /\ graphs = <<>>
    /\ active = <<>>

Next ==
    \/ Build
    \/ Finish
    \/ \E e \in Exprs : Assign(e)
    \/ \E e \in Exprs : Return(e)
    \/ Raise
    \/ Pass
    \/ \E e \in Exprs \cup {YieldExpr} : Expr(e)
    \/ \E e \in Exprs : Other(e)
    \/ Break
    \/ Continue
    \/ BreakOutsideLoop
    \/ \E e \in Exprs : While(e)
    \/ \E e \in Exprs : For(e)
    \/ LoopEnd
    \/ \E e \in Exprs : IfBegin(e)
    \/ IfOrElse
    \/ IfEnd
    \/ \E name \in FuncNames : FunctionDefBegin(name)
    \/ FunctionDefEnd
    \/ \E name \in ClassNames : ClassDefBegin(name)
    \/ ClassDefEnd

Spec == Init /\ [][Next]_vars

\* cli.py --type dfg
InitDFG ==
    /\ gtype = "dfg"
    /\ pc = "init"
    /\ nodes = <<>>
    /\ heap = <<>>
    /\ functions = [k \in FuncKeys |-> None]
    /\ stack_class = <<>>
    /\ stack_function = <<>>
    /\ stack_loop = <<>>
    /\ stack_preds = <<>>
    /\ frames = <<>>
    /\ log = {}
    /\ calls = {}
    /\ graphs = <<>>
    /\ active = <<>>

NextDFG ==
    \/ DfgBuild
    \/ DfgFinish
    \/ \E target \in Vars, value \in Values : DfgAssign(target, value)
    \/ \E targets \in TargetLists : DfgAssignChain(targets)
    \/ \E value \in Values : DfgReturn(value)
    \/ \E test \in Heads : DfgIfBegin(test)
    \/ DfgIfOrElse
    \/ DfgIfEnd
    \/ \E target \in Vars, iter \in Heads : DfgFor(target, iter)
    \/ DfgForEnd
    \/ \E test \in Heads : DfgWhile(test)
    \/ DfgWhileEnd
    \/ \E item \in Heads : DfgWith(item)
    \/ DfgWithEnd
    \/ \E name \in ClassNames : DfgClassDef(name)
    \/ DfgClassDefEnd
    \/ \E name \in FuncNames, params \in ParamLists :
          DfgFunctionDefBegin(name, params)
    \/ DfgFunctionDefEnd

SpecDFG == InitDFG /\ [][NextDFG]_vars

\* the DFG builder on programs with operator and call expressions: plain
\* assignments, assignments of expressions, return, if and for statements
NextExpr ==
    \/ DfgBuild
    \/ DfgFinish
    \/ \E target \in Vars, value \in Values : DfgAssign(target, value)
    \/ \E e \in DfgExprs : DfgAssignExpr(e)
    \/ \E value \in Values : DfgReturn(value)
    \/ \E test \in Heads : DfgIfBegin(test)
    \/ DfgIfOrElse
    \/ DfgIfEnd
    \/ \E target \in Vars, iter \in Heads : DfgFor(target, iter)
    \/ DfgForEnd

SpecExpr == InitDFG /\ [][NextExpr]_vars

\* either builder, as cli.py --type selects it
InitAll == Init \/ InitDFG

NextAll == Next \/ NextDFG

SpecAll == InitAll /\ [][NextAll]_vars

\* ------------------------------------------------------------------------
\* Properties
\* ------------------------------------------------------------------------
\* the history records of one kind
LogOf(kind) == {r \in log : r.kind = kind}

\* the nodes of one type
OfType(type) == {k \in DOMAIN nodes : nodes[k].type = type}

\* C1: a CFG has exactly one Start node, created first and without
\* predecessors; a produced CFG has exactly one Stop node, created last, whose
\* predecessor set is exactly the frontier that was live when the traversal
\* of the module ended.
C1_StartStop ==
    /\ pc # "init" =>
          /\ OfType("start") = {0}
          /\ Preds(0) = {}
    /\ pc # "done" => OfType("stop") = {}
    /\ pc = "done" =>
          /\ OfType("stop") = {NumNodes(Self) - 1}
          /\ Cardinality(LogOf("module")) = 1
          /\ \A r \in LogOf("module") :
                /\ r.node = NumNodes(Self) - 1
                /\ Preds(r.node) = r.end1

\* a produced graph whose Stop node has two predecessors
C1_Witness ==
    /\ pc = "done"
    /\ \E k \in OfType("stop") : Cardinality(Preds(k)) = 2

\* C2: once a loop has been visited, its entry node's predecessors contain
\* the frontier that preceded the loop and the frontier at the end of its
\* body (the back-edge); they stay there afterwards.
C2_BackEdge ==
    \A r \in LogOf("loop") :
        /\ nodes[r.node].type = "if"
        /\ r.before \subseteq Preds(r.node)
        /\ r.end1 \subseteq Preds(r.node)

\* a visited loop that was reached from some node and whose body ends in a
\* statement of its own
C2_Witness ==
    \E r \in LogOf("loop") :
        /\ r.before # {}
        /\ \E k \in r.end1 : nodes[k].type = "none" /\ k \notin r.before

\* C3: the frontier after a loop is exactly its BranchFalse marker plus the
\* break nodes whose innermost enclosing loop it is; a break node is never a
\* predecessor of its own loop's entry node; the node made right after a
\* break of the same block is created without predecessors.
C3_Break ==
    /\ \A r \in LogOf("loop") :
          /\ nodes[r.mark].type = "if_false"
          /\ r.after = {r.mark} \cup
                {b.node : b \in {x \in LogOf("Break") : x.mark = r.node}}
    /\ \A b \in LogOf("Break") :
          /\ b.mark # None
          /\ b.node \notin Preds(b.mark)
    /\ \A n \in LogOf("next") : n.tag = "Break" => n.before = {}

\* a visited loop that holds a break of its own, one of another loop, and a
\* statement right after a break
C3_Witness ==
    /\ \E r \in LogOf("loop") :
          /\ \E b \in LogOf("Break") : b.mark = r.node
          /\ \E b \in LogOf("Break") :
                b.mark # r.node /\ r.node < b.node /\ b.node < r.hi
    /\ \E n \in LogOf("next") : n.tag = "Break"

\* C4: a continue node is a predecessor of the entry node of its innermost
\* enclosing loop and of no other node: it is in no loop's exit frontier,
\* not at an outer loop's entry, and the node made right after a continue of
\* the same block is created without predecessors.
C4_Continue ==
    /\ \A c \in LogOf("Continue") :
          /\ c.mark # None
          /\ c.node \in Preds(c.mark)
          /\ \A k \in DOMAIN nodes \ {c.mark} : c.node \notin Preds(k)
          /\ \A r \in LogOf("loop") : c.node \notin r.after
    /\ \A n \in LogOf("next") : n.tag = "Continue" => n.before = {}

\* a continue in the inner one of two nested loops, both visited, and a
\* statement right after a continue
C4_Witness ==
    /\ \E c \in LogOf("Continue") :
          /\ \E r \in LogOf("loop") : r.node = c.mark
          /\ \E r \in LogOf("loop") :
                r.node # c.mark /\ r.node < c.node /\ c.node < r.hi
    /\ \E n \in LogOf("next") : n.tag = "Continue"

\* C5: the true body of an if starts from a fresh BranchTrue marker, its
\* orelse from a fresh BranchFalse marker, each with the if node as its only
\* predecessor; the frontier after the if is exactly the union of the final
\* frontiers of both, the BranchFalse marker being the second one when there
\* is no else.
C5_If ==
    /\ \A r \in LogOf("if") :
          /\ nodes[r.mark].type = "if_true" /\ Preds(r.mark) = {r.node}
          /\ nodes[r.mark2].type = "if_false" /\ Preds(r.mark2) = {r.node}
          /\ r.tag = "" => r.end2 = {r.mark2}
          /\ r.after = r.end1 \cup r.end2
    /\ Len(frames) > 1 /\ ~Top(frames).nonempty =>
          /\ Top(frames).kind = "If" => Frontier = {Top(frames).mark}
          /\ Top(frames).kind = "Else" => Frontier = {Top(frames).mark2}

\* an if with an else, neither branch ending in a jump, and a node after it
\* that has a predecessor from each branch
C5_Witness ==
    \E r \in LogOf("if") :
        /\ r.tag = "body"
        /\ r.end1 # {} /\ r.end2 # {} /\ r.end1 \cap r.end2 = {}
        /\ \E k \in DOMAIN nodes : k >= r.hi /\ Preds(k) = r.end1 \cup r.end2

\* C6: after a return or a raise statement the frontier is empty, so that
\* the return / raise node gets no successor.
C6_Terminal ==
    [][((\E e \in Exprs : Return(e)) \/ Raise) => Frontier' = {}]_vars

\* the nodes a definition made: its Def node and its body
Inside(r) == r.node .. (r.hi - 1)

\* C7: a definition's Def node has no predecessors, its body starts from the
\* frontier {Def node}, the frontier after the definition is the one before
\* it, and no node of the definition is a predecessor of a node outside it.
C7_Def ==
    /\ \A r \in LogOf("def") :
          /\ nodes[r.node].type = "def" /\ Preds(r.node) = {}
          /\ r.after = r.before
          /\ \A k \in DOMAIN nodes \ Inside(r) : Preds(k) \cap Inside(r) = {}
    /\ Len(frames) > 1 /\ ~Top(frames).nonempty
          /\ Top(frames).kind \in {"FunctionDef", "ClassDef"} =>
             Frontier = {Top(frames).node}

C9_Expr ==
    /\ [][Expr(NoCall) =>
            nodes' = nodes /\ heap' = heap /\ stack_preds' = stack_preds]_vars
    /\ [][\A e \in Callees \cup {YieldExpr} : Expr(e) =>
            LET n == NumNodes(Self)
            IN  /\ DOMAIN nodes' = DOMAIN nodes \cup {n}
                /\ n \notin DOMAIN nodes
                /\ heap'[nodes'[n].preds] = Frontier
                /\ \A k \in DOMAIN nodes : Preds(k)' = Preds(k)]_vars
    /\ [](pc = "done" /\ Count({"none", "if", "def"}) = 0 =>
            /\ DOMAIN nodes = {0, 1}
            /\ Preds(0) = {} /\ Preds(1) = {0})

\* a produced graph of a module that holds statements, none of which made
\* a node
C9_Witness ==
    /\ pc = "done"
    /\ frames[1].nonempty
    /\ NumNodes(Self) = 2

\* the keys of a node table are 0 .. n-1 and each node's id is its key
Gapless(table) ==
    /\ DOMAIN table = 0 .. (Cardinality(DOMAIN table) - 1)
    /\ \A k \in DOMAIN table : table[k].id = k

\* a node table keeps its nodes and their ids
KeepsIds(table, later) ==
    \A k \in DOMAIN table : k \in DOMAIN later /\ later[k].id = table[k].id

\* C10: at any time the node ids of a graph (the CFG, the DFG, and each
\* DFG subgraph of a function, each counted on its own) are exactly
\* 0 .. n-1, a new node getting the next number; a node is never dropped
\* and its id never changes.
C10_Ids ==
    /\ [](Gapless(nodes))
    /\ [](\A i \in 1..Len(graphs) : Gapless(graphs[i].nodes))
    /\ [][KeepsIds(nodes, nodes')]_vars
    /\ [][\A i \in 1..Len(graphs) :
            i <= Len(graphs') /\ KeepsIds(graphs[i].nodes, graphs'[i].nodes)]_vars

\* a produced DFG with nodes of its own and a function subgraph with more
\* than one node
C10_Witness ==
    /\ gtype = "dfg" /\ pc = "done"
    /\ Len(graphs) >= 2
    /\ NumNodes(graphs[1]) >= 1
    /\ NumNodes(graphs[2]) >= 2

\* the nodes that have b among their predecessors
Successors(b) == {k \in DOMAIN nodes : b \in Preds(k)}

\* C11: in a produced graph, every node made for an if, for or while has
\* exactly two successors, one BranchTrue marker and one BranchFalse marker,
\* each with that node as its only predecessor.
C11_Branch ==
    pc = "done" =>
        \A b \in OfType("if") :
            /\ Cardinality(Successors(b)) = 2
            /\ \E t \in Successors(b) :
                  nodes[t].type = "if_true" /\ Preds(t) = {b}
            /\ \E f \in Successors(b) :
                  nodes[f].type = "if_false" /\ Preds(f) = {b}

\* the entry nodes of the loops visited so far or being visited
LoopEntries ==
    {r.node : r \in LogOf("loop")} \cup
    {frames[i].node : i \in {j \in 1..Len(frames) : frames[j].kind = "Loop"}}

\* C12: a predecessor edge p -> n with p.id >= n.id exists only when n is
\* the entry node of a loop; every other edge goes from a node created
\* earlier to a node created later.
C12_Backward ==
    \A n \in DOMAIN nodes :
        \A p \in Preds(n) :
            /\ p \in DOMAIN nodes
            /\ p >= n => n \in LoopEntries /\ nodes[n].type = "if"

\* a produced graph with a backward edge from the end of a loop body and one
\* from a continue node
C12_Witness ==
    /\ pc = "done"
    /\ \E r \in LogOf("loop") :
          /\ \E p \in r.end1 : p > r.node /\ p \in Preds(r.node)
          /\ \E c \in LogOf("Continue") : c.mark = r.node /\ c.node \in Preds(r.node)

\* C13: build returns a graph for every tree; it never raises.
C13_NoRaise == pc # "error"

\* the graphs of a DFG run
Graphs == IF gtype = "dfg" THEN 1..Len(graphs) ELSE {}

\* places in a trace: where name gets a binding, where name is read, where
\* an assignment statement stores its target
BindsOf(t, name) ==
    {i \in DOMAIN t : t[i].op \in {"write", "new", "merge"} /\ t[i].name = name}

ReadsOf(t, name) ==
    {i \in DOMAIN t : t[i].op \in {"read", "new"} /\ t[i].name = name}

IsRead(e) == e.op \in {"read", "new"}

IsStmt(e, kind) == e.op = "stmt" /\ e.name = kind

AssignWrites(t) ==
    {j \in DOMAIN t : /\ t[j].op = "write" /\ j > 1
                      /\ \/ IsStmt(t[j - 1], "Assign")
                         \/ j > 2 /\ IsRead(t[j - 1]) /\ IsStmt(t[j - 2], "Assign")}

\* the frame that took the binding made at i is gone before k
Dropped(t, i, k) == \E m \in (i + 1)..(k - 1) : t[m].depth < t[i].frame

\* the binding made at i is the one in force at k
InForce(t, i, k) ==
    /\ i < k
    /\ ~Dropped(t, i, k)
    /\ \A m \in BindsOf(t, t[i].name) : ~(i < m /\ m < k)

\* C14: two successive assignments to one name in one scope make two
\* different Name nodes, the second with the larger id; a read between them,
\* the second assignment's own value included, resolves to the first node
\* (the value is visited before the target, so the new node's predecessor is
\* what the value read), a read after the second resolves to the second.
C14_Rebind ==
    \A g \in Graphs :
        LET t == graphs[g].trace
            ns == graphs[g].nodes
        IN  /\ \A j \in AssignWrites(t) :
                  /\ Len(ns[t[j].node].preds) = 1
                  /\ ns[t[j].node].preds[1] < t[j].node
                  /\ IF IsRead(t[j - 1])
                     THEN ns[t[j].node].preds[1] = t[j - 1].node
                     ELSE ns[ns[t[j].node].preds[1]].type = "constant"
            /\ \A i, j \in DOMAIN t :
                  (/\ t[i].op = "write" /\ t[j].op = "write"
                   /\ t[i].name = t[j].name /\ t[i].frame = t[j].frame
                   /\ InForce(t, i, j))
                  => /\ t[i].node < t[j].node
                     /\ ns[t[i].node].label = t[i].name
                     /\ ns[t[j].node].label = t[i].name
                     /\ \A k \in ReadsOf(t, t[i].name) :
                           /\ (i < k /\ k < j) => t[k].node = t[i].node
                           /\ InForce(t, j, k) => t[k].node = t[j].node

\* x = 1; x = x; return x: the value of the second assignment reads the
\* first node, the return reads the second
C14_Witness ==
    /\ gtype = "dfg" /\ pc = "done"
    /\ \E g \in Graphs :
          LET t == graphs[g].trace
          IN  \E i, j, k \in DOMAIN t :
                /\ t[i].op = "write" /\ t[j].op = "write" /\ t[k].op = "read"
                /\ t[i].name = t[j].name /\ t[k].name = t[i].name
                /\ InForce(t, i, j) /\ InForce(t, j, k)
                /\ j \in AssignWrites(t)
                /\ t[j - 1].op = "read" /\ t[j - 1].name = t[i].name
                /\ t[j - 1].node = t[i].node
                /\ t[k].node = t[j].node

\* places in a trace where an if statement is over
IfEnds(t) == {e \in DOMAIN t : t[e].op = "end" /\ t[e].name = "If"}

\* the place where the orelse of the if that ends at e starts (e if it has
\* no orelse)
ElseOf(t, e) ==
    LET L == {m \in DOMAIN t : t[m].op = "else" /\ t[m].node = t[e].node}
    IN  IF L = {} THEN e ELSE CHOOSE m \in L : TRUE

\* the merged nodes made when the if that ends at e is left
MergesAt(t, e) ==
    {m \in 1..(e - 1) : \A k \in m..(e - 1) : t[k].op = "merge"}

\* the names stored between two places, and the names read
AssignedIn(t, lo, hi) ==
    {t[i].name : i \in {k \in (lo + 1)..(hi - 1) : t[k].op = "write"}}

ReadIn(t, lo, hi) ==
    {t[i].name : i \in {k \in (lo + 1)..(hi - 1) : IsRead(t[k])}}

\* C15: after an if, a merged Name node whose only predecessor is the "if"
\* Op node is made for a variable exactly when the variable was assigned in
\* the true branch and in the false branch: one node for each such variable,
\* none for any other name.
C15_Merge ==
    \A g \in Graphs :
        LET t == graphs[g].trace
            ns == graphs[g].nodes
        IN  \A e \in IfEnds(t) :
              /\ {t[m].name : m \in MergesAt(t, e)} =
                    AssignedIn(t, t[e].node, ElseOf(t, e))
                    \cap AssignedIn(t, ElseOf(t, e), e)
              /\ \A m1, m2 \in MergesAt(t, e) :
                    t[m1].name = t[m2].name => m1 = m2
              /\ \A m \in MergesAt(t, e) :
                    /\ ns[t[m].node].type = "name"
                    /\ ns[t[m].node].label = t[m].name
                    /\ Len(ns[t[m].node].preds) = 1
                    /\ ns[ns[t[m].node].preds[1]].label = "if"

\* the names that occur between two places
MentionedIn(t, lo, hi) ==
    {t[i].name : i \in {k \in (lo + 1)..(hi - 1) :
                            t[k].op \in {"write", "read", "new", "merge"}}}

\* the names assigned in exactly one branch of the if that ends at e
OneBranch(t, e) ==
    (AssignedIn(t, t[e].node, ElseOf(t, e)) \cup AssignedIn(t, ElseOf(t, e), e))
    \ (AssignedIn(t, t[e].node, ElseOf(t, e)) \cap AssignedIn(t, ElseOf(t, e), e))

\* the places inside the if that ends at e where name is stored
WritesInside(t, e, name) ==
    {i \in (t[e].node + 1)..(e - 1) : t[i].op = "write" /\ t[i].name = name}

Alive(t, k) ==
    {i \in BindsOf(t, t[k].name) : i < k /\ ~Dropped(t, i, k)}

\* among them, the one in force: nearest frame, latest binding
Nearest(t, k) ==
    CHOOSE i \in Alive(t, k) : \A j \in Alive(t, k) :
        \/ t[j].frame < t[i].frame
        \/ t[j].frame = t[i].frame /\ j <= i

\* C17: a read resolves to the binding in force in the nearest enclosing
\* frame that declares the name and makes no node; when no frame declares
\* it, the read makes one Name node without predecessors and installs it in
\* the innermost frame, and later reads of the name, while that frame is
\* there and the name is not bound again, resolve to that node.
C17_Resolve ==
    \A g \in Graphs :
        LET t == graphs[g].trace
            ns == graphs[g].nodes
        IN  \A k \in DOMAIN t : IsRead(t[k]) =>
              /\ Alive(t, k) # {} =>
                    /\ t[k].op = "read"
                    /\ t[k].node = t[Nearest(t, k)].node
                    /\ t[k].frame = t[Nearest(t, k)].frame
              /\ Alive(t, k) = {} =>
                    /\ t[k].op = "new"
                    /\ t[k].frame = t[k].depth
                    /\ ns[t[k].node] = Node(t[k].node, t[k].name, "name", <<>>)
                    /\ \A i \in 1..(k - 1) : t[i].node # t[k].node \/ t[i].op \in {"else", "end"}
                    /\ \A k2 \in ReadsOf(t, t[k].name) :
                          InForce(t, k, k2) =>
                             t[k2].op = "read" /\ t[k2].node = t[k].node

\* a name first read inside a for or with body and read there again, and a
\* read inside a body of a name that is bound in an outer frame
C17_Witness ==
    /\ gtype = "dfg" /\ pc = "done"
    /\ \E g \in Graphs :
          LET t == graphs[g].trace
          IN  /\ \E k, k2 \in DOMAIN t :
                    /\ t[k].op = "new" /\ t[k].frame = 2
                    /\ t[k2].op = "read" /\ t[k2].name = t[k].name
                    /\ InForce(t, k, k2) /\ t[k2].node = t[k].node
              /\ \E r \in DOMAIN t : t[r].op = "read" /\ t[r].frame < t[r].depth

\* places in a trace where a statement of one of the kinds is over
EndsOf(t, kinds) == {e \in DOMAIN t : t[e].op = "end" /\ t[e].name \in kinds}

\* the construct that ends at e pushed one frame when it was entered, the
\* depth is back after it, and no name has a binding after it that had none
\* before (but the name of the class that a class definition binds)
Scoped(t, e) ==
    /\ t[t[e].node + 1].depth = t[t[e].node].depth + 1
    /\ t[e].depth = t[t[e].node].depth
    /\ t[e].bound \subseteq t[t[e].node].bound \cup
          (IF t[e].name = "ClassDef" THEN {t[e - 1].name} ELSE {})

\* C18: a class body, for body, while body and with body each push one
\* fresh frame of names on entry and pop it on exit: the depth of the stack
\* after the construct is the depth before it, and a name first declared
\* inside has no binding once the construct is left.
C18_Frames ==
    \A g \in Graphs :
        \A e \in EndsOf(graphs[g].trace, {"ClassDef", "For", "While", "With"}) :
            Scoped(graphs[g].trace, e)

\* the Name nodes of a graph that carry a label
NamedNodes(ns, label) ==
    {n \in DOMAIN ns : ns[n].type = "name" /\ ns[n].label = label}

\* C19: every binding occurrence makes a new Name node in the graph being
\* built and makes it the name's binding: an assignment target, a loop
\* target and a class definition (a node that no earlier step made or
\* used), a function definition (in the graph that holds the definition),
\* and a parameter (in the subgraph of its function).
C19_NewNode ==
    \A g \in Graphs :
        LET t == graphs[g].trace
            ns == graphs[g].nodes
        IN  /\ \A j \in DOMAIN t : t[j].op = "write" =>
                  /\ t[j].node \in NamedNodes(ns, t[j].name)
                  /\ t[j].name \in t[j].bound
                  /\ \A i \in 1..(j - 1) :
                        t[i].node # t[j].node \/ t[i].op \in {"else", "end"}
            /\ \A e \in EndsOf(t, {"FunctionDef"}) :
                  \E name \in FuncNames :
                     NamedNodes(ns, name) # {} /\ name \in t[e].bound
            /\ \A name \in DOMAIN graphs[g].inputs :
                  NamedNodes(ns, name) # {} /\ name \in Bound(graphs[g])

\* the subgraphs of functions whose build_from_nodes has returned
Subgraphs ==
    {g \in Graphs : g > 1 /\ \A i \in DOMAIN active : active[i].graph # g}

\* C20: once the subgraph of a function is built, each parameter is mapped
\* to an input Name node of that subgraph, used by the body or not; the
\* node has no predecessors and is the parameter's first binding, not a
\* node made by an assignment to the name.
C20_Inputs ==
    \A g \in Subgraphs :
        LET t == graphs[g].trace
            ns == graphs[g].nodes
            inputs == graphs[g].inputs
        IN  \A name \in DOMAIN inputs :
              /\ inputs[name] \in NamedNodes(ns, name)
              /\ ns[inputs[name]].preds = <<>>
              /\ \A i \in BindsOf(t, name) :
                    (\A j \in BindsOf(t, name) : i <= j) =>
                       t[i].op # "write" /\ t[i].node = inputs[name]

\* a step adds exactly one node, whose predecessors are the frontier before
\* the step, and the frontier after the step is that node alone
OneNode ==
    LET n == NumNodes(Self)
    IN  /\ DOMAIN nodes' = DOMAIN nodes \cup {n}
        /\ n \notin DOMAIN nodes
        /\ heap'[nodes'[n].preds] = Frontier
        /\ Frontier' = {n}

\* C25 as stated: every linear statement, an expression statement of any
\* kind included, appends exactly one node whose predecessors are the
\* frontier before it, and the frontier after it is that node alone.
C25_Linear ==
    [][(\/ \E e \in Exprs : Assign(e)
        \/ Raise
        \/ Pass
        \/ \E e \in Exprs \cup {YieldExpr} : Expr(e)) => OneNode]_vars

\* C25, amended: an assign, augmented assign, delete, assert, pass, import
\* or raise statement, and an expression statement that holds a call or a
\* yield, appends exactly one node whose predecessors are the frontier
\* before it, and the frontier after it is that node alone; an expression
\* statement without call and yield appends no node.
C25_LinearEffect ==
    /\ [][(\/ \E e \in Exprs : Assign(e)
           \/ Raise
           \/ Pass
           \/ \E e \in Callees \cup {YieldExpr} : Expr(e)) => OneNode]_vars
    /\ [][Expr(NoCall) => nodes' = nodes /\ Frontier' = Frontier]_vars

\* a linear statement's node made from a frontier of two nodes, which is
\* the frontier by itself afterwards
C25_Witness ==
    /\ pc = "visit"
    /\ Frontier = {NumNodes(Self) - 1}
    /\ nodes[NumNodes(Self) - 1].type = "none"
    /\ Cardinality(Preds(NumNodes(Self) - 1)) = 2

\* the nodes whose predecessor set is not the same after a step
Repointed ==
    {k \in DOMAIN nodes : heap'[nodes'[k].preds] # Preds(k)}

\* C27: a node, once created, keeps its id, label and type; its
\* predecessor set changes only if it is the entry node of a loop, at the
\* end of the loop's body or at a continue, and such a step changes the
\* predecessor set of no other node.
C27_Immutable ==
    [][/\ \A k \in DOMAIN nodes :
             /\ k \in DOMAIN nodes'
             /\ nodes'[k].id = nodes[k].id
             /\ nodes'[k].label = nodes[k].label
             /\ nodes'[k].type = nodes[k].type
       /\ \A k \in Repointed :
             /\ k \in LoopEntries /\ nodes[k].type = "if"
             /\ LoopEnd \/ Continue
             /\ Repointed = {k}]_vars

\* a produced graph with a loop whose entry node got a back-edge, and two
\* other nodes (the markers of an if) that share one predecessor set object
C27_Witness ==
    /\ pc = "done"
    /\ \E r \in LogOf("loop") : \E p \in Preds(r.node) : p > r.node
    /\ \E j, k \in DOMAIN nodes :
          j # k /\ nodes[j].preds = nodes[k].preds /\ Preds(j) # {}

\* CFGNode.is_hidden
is_hidden(k) == nodes[k].label = ""

\* render without hidden nodes: the source of an edge is found by walking
\* from the predecessor along list(cn_pred.preds)[0] while it is hidden
RECURSIVE Walk(_)
Walk(p) ==
    IF is_hidden(p) /\ Preds(p) # {}
    THEN Walk(CHOOSE q \in Preds(p) : TRUE)
    ELSE p

\* C26: in a produced graph every hidden node is a marker and has exactly
\* one predecessor; the walk from a hidden predecessor ends at a visible
\* node, so every edge rendered without hidden nodes joins two visible
\* nodes.
C26_Hidden ==
    pc = "done" =>
        /\ \A k \in DOMAIN nodes : is_hidden(k) =>
              /\ nodes[k].type \in {"if_true", "if_false"}
              /\ Cardinality(Preds(k)) = 1
        /\ \A k \in DOMAIN nodes : ~is_hidden(k) =>
              \A p \in Preds(k) :
                 Walk(p) \in DOMAIN nodes /\ ~is_hidden(Walk(p))

\* a produced graph with the markers of an if and of a loop: a visible
\* node follows a marker, and the walk from a loop's true marker passes
\* its false marker
C26_Witness ==
    /\ pc = "done"
    /\ \E k \in DOMAIN nodes : ~is_hidden(k) /\ \E p \in Preds(k) :
          /\ is_hidden(p) /\ nodes[p].type = "if_true"
          /\ \E q \in Preds(p) : is_hidden(q) /\ Walk(p) = Walk(q)
    /\ \E r \in LogOf("if") : \E k \in DOMAIN nodes : r.mark \in Preds(k)

\* the handlers of some kinds that are suspended in a body
Open(kinds) == SelectSeq(frames, LAMBDA fr : fr.kind \in kinds)

\* C30: the depth of the frontier stack and the contents of the loop stack
\* depend only on the statements whose bodies are being visited (one more
\* frontier inside the body of an if, a def or a class, one loop context
\* for each open loop), so a statement that has been visited leaves both
\* as they were; a simple statement, break and continue included, changes
\* neither; when build returns the frontier stack holds one frame and the
\* loop, class and function stacks are empty.
C30_Balanced ==
    /\ [](gtype = "cfg" /\ pc \in {"visit", "done"} =>
            /\ Len(stack_preds) =
                  1 + Len(Open({"If", "FunctionDef", "ClassDef"}))
            /\ stack_loop =
                  [i \in 1..Len(Open({"Loop"})) |->
                      [cn_enter |-> Open({"Loop"})[i].cn_enter,
                       cn_exits |-> Open({"Loop"})[i].cn_exits]]
            /\ Len(stack_class) = Len(Open({"ClassDef"}))
            /\ Len(stack_function) = Len(Open({"FunctionDef"})))
    /\ [](gtype = "cfg" /\ pc = "done" =>
            /\ Len(stack_preds) = 1
            /\ stack_loop = <<>> /\ stack_class = <<>> /\ stack_function = <<>>)
    /\ [][(\/ \E e \in Exprs : Assign(e) \/ Return(e) \/ Other(e)
           \/ \E e \in Exprs \cup {YieldExpr} : Expr(e)
           \/ Raise \/ Pass \/ Break \/ Continue) =>
             /\ Len(stack_preds') = Len(stack_preds)
             /\ stack_loop' = stack_loop]_vars

\* build has returned from a module with a loop, an if and a break
C30_Witness ==
    /\ pc = "done"
    /\ LogOf("loop") # {} /\ LogOf("if") # {} /\ LogOf("Break") # {}

\* the elements of a sequence
Range(q) == {q[i] : i \in DOMAIN q}

\* every node a builder refers to (as a predecessor, in a frontier, as a
\* binding, as an input) is a node of its own table
Closed(b) ==
    /\ \A n \in DOMAIN b.nodes : Range(b.nodes[n].preds) \subseteq DOMAIN b.nodes
    /\ \A i \in DOMAIN b.stack_preds : Range(b.stack_preds[i]) \subseteq DOMAIN b.nodes
    /\ \A i \in DOMAIN b.stack_names : \A name \in DOMAIN b.stack_names[i] :
          b.stack_names[i][name] \in DOMAIN b.nodes
    /\ \A name \in DOMAIN b.inputs : b.inputs[name] \in DOMAIN b.nodes \cup {None}

\* the parts of a builder that a visit works on
Parts(b) == <<b.nodes, b.stack_names, b.stack_preds, b.stack_class,
              b.inputs, b.outputs>>

C24_Deterministic ==
    [][DfgIfEnd =>
         LET fr == Top(active)
             b == PopPreds(Running)
             preds_true == IF fr.kind = "If" THEN Top(Running.stack_preds)
                           ELSE fr.preds_true
             preds_false == IF fr.kind = "If" THEN <<>>
                            ELSE Top(Running.stack_preds)
         IN  \A order \in Orders(SharedOutputs(b, preds_true, preds_false)) :
                Parts(graphs'[fr.graph]) =
                   Parts(dfg_visit_If_exit(b, fr.dn_test, preds_true,
                                           preds_false, order))]_vars

\* the binding of a name in one frame of a builder, None if it has none
Cell(b, i, name) ==
    IF name \in DOMAIN b.stack_names[i] THEN b.stack_names[i][name] ELSE None

\* the frames that declare the name of event j when j happens: a frame is
\* there if no event since its binding, j included, was at a lower depth
DeclaringFrames(t, j) ==
    {t[i].frame : i \in {a \in Alive(t, j) : t[a].frame <= t[j].depth}}

Elses(t) == {m \in DOMAIN t : t[m].op = "else"}

\* the places of the orelse that starts at m: up to the end of its if
\* statement, or up to the end of the trace while it is being visited
OrElse(t, m) ==
    LET E == {e \in IfEnds(t) : t[e].node = t[m].node}
    IN  {k \in DOMAIN t : m < k /\ \A e \in E : k < e}

\* C29: while the orelse of an if statement is visited, a read of a variable
\* resolves to the binding that was in force before the if statement (as
\* long as the orelse has not stored the variable itself), and never to a
\* Name node made by an assignment in the true branch of that if.
C29_ElseReads ==
    \A g \in Graphs :
        LET t == graphs[g].trace
        IN  \A m \in Elses(t) : \A k \in OrElse(t, m) :
               IsRead(t[k]) =>
                  /\ \A j \in (t[m].node + 1)..(m - 1) :
                        (t[j].op = "write" /\ t[j].name = t[k].name) =>
                           t[k].node # t[j].node
                  /\ \A i \in BindsOf(t, t[k].name) :
                        (/\ InForce(t, i, t[m].node)
                         /\ \A w \in BindsOf(t, t[k].name) : ~(m < w /\ w < k)) =>
                           t[k].node = t[i].node

\* the places in a trace where the node of an operator or call is made
OpsOf(t) == {p \in DOMAIN t : t[p].op = "op"}

\* the place where the expression of the node made at p is entered
ExprOf(t, p) ==
    CHOOSE q \in 1..(p - 1) :
        t[q].op = "expr" /\ \A m \in (q + 1)..(p - 1) : t[m].op # "expr"

\* its operands as they are written, left to right
OperandsOf(t, p) ==
    LET q == ExprOf(t, p)
        n == Cardinality({m \in (q + 1)..(p - 1) : t[m].op = "operand"})
    IN  [i \in 1..n |-> t[q + i].name]

\* the labels of the predecessors of a node, in their order
PredLabels(ns, id) == [i \in DOMAIN ns[id].preds |-> ns[ns[id].preds[i]].label]

NonLiteral(vs) == SelectSeq(vs, LAMBDA v : v \notin Literals)

\* C22: when an operand of a binary operator or of a comparison with one
\* operator is a literal, the literal is in the label of the Op node, the
\* expression makes no Constant node, the predecessors of the Op node are
\* the nodes of the operands that are no literals, and the Name node of the
\* assigned variable has the Op node as its only predecessor.
C22_Folded ==
    \A g \in Graphs :
        LET t == graphs[g].trace
            ns == graphs[g].nodes
        IN  \A p \in OpsOf(t) :
               LET q == ExprOf(t, p)
                   vs == OperandsOf(t, p)
                   sym == IF t[q].name = "BinOp" THEN "+" ELSE "<"
                   Shown(v) == IF v \in Literals THEN v ELSE "_"
               IN  (/\ t[q].name \in {"BinOp", "Compare"}
                    /\ \E i \in DOMAIN vs : vs[i] \in Literals) =>
                      /\ ns[t[p].node].type = "op"
                      /\ ns[t[p].node].label =
                            Shown(vs[1]) \o " " \o sym \o " " \o Shown(vs[2])
                      /\ \A id \in t[q].node..t[p].node :
                            ns[id].type # "constant"
                      /\ PredLabels(ns, t[p].node) =
                            OrderedSetUpdate(<<>>, NonLiteral(vs))
                      /\ (p < Len(t) /\ t[p + 1].op = "write") =>
                            ns[t[p + 1].node].preds = <<t[p].node>>

\* C23: the predecessors of an operator or call node are the nodes of its
\* operands in the order of evaluation, left before right, each once (the
\* operands that are literals folded into the label may be left out); a
\* predecessor that is a Name node is the node that the read of the operand
\* resolved to.
C23_Operands ==
    \A g \in Graphs :
        LET t == graphs[g].trace
            ns == graphs[g].nodes
        IN  \A p \in OpsOf(t) :
               LET q == ExprOf(t, p)
                   vs == OperandsOf(t, p)
                   dn == ns[t[p].node]
               IN  /\ PredLabels(ns, t[p].node) \in
                         {OrderedSetUpdate(<<>>, vs),
                          OrderedSetUpdate(<<>>, NonLiteral(vs))}
                   /\ \A i, j \in DOMAIN dn.preds :
                         dn.preds[i] = dn.preds[j] => i = j
                   /\ \A i \in DOMAIN dn.preds :
                         ns[dn.preds[i]].type = "name" =>
                            \E k \in (q + 1)..(p - 1) :
                               IsRead(t[k]) /\ t[k].node = dn.preds[i]

====
